---------------------------- MODULE Spec2Model ----------------------------
(***************************************************************************)
(* Document indexing and deduplication engine of AIAssistant_project:      *)
(* the file tracker ("ledger", file_tracker.py), the ChromaDB usage        *)
(* ("content store", document_processor.py) and the entry points that      *)
(* drive them (graphrag_app.py: /upload, /reindex, /delete-document,       *)
(* start-up scan).                                                         *)
(*                                                                         *)
(* A file name is a string, a path is a pair <<directory, name>>.  A text  *)
(* is a number t; text 0 is the blank text (nothing extractable), text     *)
(* t > 0 is split by the text splitter into NumChunks(t) chunks.  A chunk's *)
(* page content is [text, idx, len, marks]: the first len characters of    *)
(* chunk idx of text, followed by marks copies of the marker "...".        *)
(* Every call to the store, to os.path.getmtime and to the tracker file    *)
(* may fail; the failure is an input of the operator that makes the call.  *)
(***************************************************************************)
EXTENDS Integers, Sequences, FiniteSets, TLC

\* ----------------------------------------------------------------- bounds
MaxText == 2          \* texts are 0..MaxText
\* The length of a run: a request or a file system event takes one tick of the
\* clock, a step in which a call to the store or the disk fails one more.
MaxOps == 3
\* Page sizes of the store enumeration are 1..MaxPage.
MaxPage == 3

\* ------------------------------------------------------ program constants
MAX_CHUNK_CHARS == 1500
FALLBACK_CHUNK_CHARS == 1000
MARKER_LEN == 3
batch_size == 1000

UPLOAD_FOLDER == "data_store"
SubFolder == "data_store/sub"
SUPPORTED_EXTENSIONS == {"pdf", "docx", "txt", "csv", "json", "md", "html", "xml"}

\* ------------------------------------------------------------ the universe
Names == {"a.txt", "b.txt"}
Dirs == {UPLOAD_FOLDER, SubFolder}
\* the files that may exist under the document root
Paths == {<<UPLOAD_FOLDER, "a.txt">>, <<UPLOAD_FOLDER, "b.txt">>, <<SubFolder, "a.txt">>}
Texts == 0..MaxText
NoFile == [mtime |-> 0, text |-> 0, exists |-> FALSE]
EmptyLedger == <<>>
\* The tracker file: a JSON mapping, or bytes that json.load rejects.
File(led) == [valid |-> TRUE, entries |-> led]
CorruptFile == [valid |-> FALSE, entries |-> EmptyLedger]

Min(a, b) == IF a < b THEN a ELSE b

\* os.path.join(root, filename) / os.path.basename(key)
join(dir, filename) == <<dir, filename>>
basename(key) == key[2]
\* filename.rsplit('.', 1)[-1].lower() if '.' in filename else ''
file_ext(filename) ==
  CASE filename = "a.txt" -> "txt"
    [] filename = "b.txt" -> "txt"
    [] OTHER -> ""

\* ---------------------------------------------------- chunker and hasher
\* text_splitter.split_text(text): the number of chunks and each chunk's length
NumChunks(t) == t
ChunkLens == <<400, 1600, 1200>>
ChunkLen(t, i) == ChunkLens[((t + i) % 3) + 1]
split_text(t) == [i \in 0..(NumChunks(t) - 1) |->
                    [text |-> t, idx |-> i, len |-> ChunkLen(t, i), marks |-> 0]]
\* hashlib.md5(text.encode('utf-8')).hexdigest()
get_document_hash(t) == <<"md5", t>>
\* The emptiness test answering that every text has content.
HasText_Always(t) == TRUE

\* text.strip() is non-empty
HasText(t) == t # 0

\* len(page_content)
ContentLen(c) == c.len + MARKER_LEN * c.marks
\* page_content[:n] + "..."  (n never exceeds the original characters kept)
Truncate(c, n) == [c EXCEPT !.len = Min(n, c.len), !.marks = 1]

\* -------------------------------------------------------- content store
\* The collection is a function from chunk ids <<filename, i>> to records.
EmptyStore == <<>>
ChunkId(filename, i) == <<filename, i>>
\* collection.get(where={"source": filename}) when the query answers truthfully
SourceIds(st, filename) == {id \in DOMAIN st : st[id].source = filename}
AllSources(st) == {st[id].source : id \in DOMAIN st}
Put(st, id, rec) == [x \in (DOMAIN st) \cup {id} |-> IF x = id THEN rec ELSE st[x]]
Drop(st, ids) == [x \in (DOMAIN st) \ ids |-> st[x]]

\* Outcomes of a metadata-filter query: answers, answers empty (index broken), raises.
QueryOutcomes == {"ok", "miss", "error"}
\* Outcomes of every other store call.
CallOutcomes == {"ok", "error"}


\* All chunk ids of the collection in the order the store lists them.
RECURSIVE Listing(_, _)
Listing(st, ids) ==
  IF ids = {} THEN <<>>
  ELSE LET id == CHOOSE x \in ids :
                   \A y \in ids : x[1] # y[1] \/ x[2] <= y[2] \/ x = y
       IN <<id>> \o Listing(st, ids \ {id})

\* The check with the metadata query's answer ignored: only the id probe decides.
is_document_in_chroma_IdProbeOnly(filename, st, q1, q2) ==
  IF q1 = "error" \/ q2 = "error" THEN FALSE
  ELSE ChunkId(filename, 0) \in DOMAIN st

\* is_document_in_chroma(filename, vector_store): q1 is the outcome of the
\* metadata query, q2 the outcome of the get by id "<filename>_0".  Both calls
\* sit in one try block whose handler falls through to "return False".
is_document_in_chroma(filename, st, q1, q2) ==
  IF q1 = "error" THEN FALSE
  ELSE IF q1 = "ok" /\ SourceIds(st, filename) # {} THEN TRUE
  ELSE IF q2 = "error" THEN FALSE
  ELSE ChunkId(filename, 0) \in DOMAIN st

\* The two store calls of the check: the id probe is only made when the
\* metadata query returned and found nothing.
CheckFaults ==
  {f \in [q1 : QueryOutcomes, q2 : CallOutcomes] : f.q1 = "error" => f.q2 = "ok"}
NoCheckFault == [q1 |-> "ok", q2 |-> "ok"]

\* The enumeration ending after its first page.
ListPages_FirstPageOnly(st, size, offset, page, failPage, sources) ==
  IF page = failPage THEN sources
  ELSE LET all == Listing(st, DOMAIN st)
           ids == SubSeq(all, offset + 1, Min(offset + size, Len(all)))
       IN sources \cup {st[ids[k]].source : k \in 1..Len(ids)}

\* get_indexed_sources_from_chroma(vector_store): pages of batch_size chunks
\* until a short page; an exception on page failPage ends the loop and the
\* sources gathered so far are returned.
RECURSIVE ListPages(_, _, _, _, _, _)
ListPages(st, size, offset, page, failPage, sources) ==
  IF page = failPage THEN sources
  ELSE LET all == Listing(st, DOMAIN st)
           ids == SubSeq(all, offset + 1, Min(offset + size, Len(all)))
           got == sources \cup {st[ids[k]].source : k \in 1..Len(ids)}
       IN IF Len(ids) = 0 THEN sources
          ELSE IF Len(ids) < size THEN got
          ELSE ListPages(st, size, offset + size, page + 1, failPage, got)

get_indexed_sources_from_chroma(st, failPage) ==
  ListPages(st, batch_size, 0, 0, failPage, {})

\* get_indexed_sources_from_chroma, lines 87-104: the number of
\* collection.get requests the loop makes from offset on, none of them raising.
RECURSIVE PageRequests(_, _, _)
PageRequests(st, size, offset) ==
  LET all == Listing(st, DOMAIN st)
      ids == SubSeq(all, offset + 1, Min(offset + size, Len(all)))
  IN IF Len(ids) < size THEN 1 ELSE 1 + PageRequests(st, size, offset + size)

\* The page on which the enumeration raises; -1: it never raises.
ListFaults == {-1, 0}

\* The delete with the query limited to one id: only the first chunk goes.
delete_document_from_chroma_FirstOnly(filename, st, q, d) ==
  LET ids_to_delete == IF q = "ok" THEN SourceIds(st, filename) \cap {ChunkId(filename, 0)}
                       ELSE {}
  IN IF ids_to_delete # {} /\ d = "ok"
     THEN [store |-> Drop(st, ids_to_delete), deleted_count |-> Cardinality(ids_to_delete)]
     ELSE [store |-> st, deleted_count |-> 0]

\* delete_document_from_chroma(filename, vector_store): q is the outcome of
\* the metadata query, d of collection.delete; any exception is swallowed.
delete_document_from_chroma(filename, st, q, d) ==
  LET ids_to_delete == IF q = "ok" THEN SourceIds(st, filename) ELSE {}
  IN IF ids_to_delete # {} /\ d = "ok"
     THEN [store |-> Drop(st, ids_to_delete), deleted_count |-> Cardinality(ids_to_delete)]
     ELSE [store |-> st, deleted_count |-> 0]

DeleteFaults ==
  {f \in [q : QueryOutcomes, d : CallOutcomes] : f.q # "ok" => f.d = "ok"}

\* The Document objects with chunk_index counted from one.
documents_IndexFromOne(t, filename, source_path) ==
  LET chunks == split_text(t)
  IN [i \in DOMAIN chunks |->
        [page_content |-> chunks[i],
         source |-> filename,
         source_path |-> source_path,
         chunk_index |-> i + 1,
         total_chunks |-> NumChunks(t),
         content_hash |-> get_document_hash(t)]]

\* process_document, lines 294-318: the Document objects built from the text.
documents(t, filename, source_path) ==
  LET chunks == split_text(t)
  IN [i \in DOMAIN chunks |->
        [page_content |-> IF ContentLen(chunks[i]) > MAX_CHUNK_CHARS
                          THEN Truncate(chunks[i], MAX_CHUNK_CHARS)
                          ELSE chunks[i],
         source |-> filename,
         source_path |-> source_path,
         chunk_index |-> i,
         total_chunks |-> NumChunks(t),
         content_hash |-> get_document_hash(t)]]

\* The fallback leaving its loop after the first document.
add_individually_FirstOnly(st, docs, filename, i, ok) ==
  IF i \in DOMAIN docs /\ i \in ok THEN Put(st, ChunkId(filename, i), docs[i]) ELSE st

\* The fallback with an individual failure ending the loop.
RECURSIVE add_individually_StopAtFailure(_, _, _, _, _)
add_individually_StopAtFailure(st, docs, filename, i, ok) ==
  IF i \notin DOMAIN docs \/ i \notin ok THEN st
  ELSE LET doc == IF ContentLen(docs[i].page_content) > FALLBACK_CHUNK_CHARS
                  THEN [docs[i] EXCEPT !.page_content =
                          Truncate(docs[i].page_content, FALLBACK_CHUNK_CHARS)]
                  ELSE docs[i]
       IN add_individually_StopAtFailure(Put(st, ChunkId(filename, i), doc), docs,
                                         filename, i + 1, ok)

\* process_document, lines 333-341: the fallback after a failed batch.  Each
\* document is cut to the hard cap before its only individual insert; ok is
\* the set of chunk indexes whose individual insert succeeds.
RECURSIVE add_individually(_, _, _, _, _)
add_individually(st, docs, filename, i, ok) ==
  IF i \notin DOMAIN docs THEN st
  ELSE LET doc == IF ContentLen(docs[i].page_content) > FALLBACK_CHUNK_CHARS
                  THEN [docs[i] EXCEPT !.page_content =
                          Truncate(docs[i].page_content, FALLBACK_CHUNK_CHARS)]
                  ELSE docs[i]
           st1 == IF i \in ok THEN Put(st, ChunkId(filename, i), doc) ELSE st
       IN add_individually(st1, docs, filename, i + 1, ok)

\* vector_store.add_documents(documents, ids=ids): one upsert of all documents.
add_documents(st, docs, filename) ==
  [id \in (DOMAIN st) \cup {ChunkId(filename, i) : i \in DOMAIN docs} |->
     IF id[1] = filename /\ id[2] \in DOMAIN docs THEN docs[id[2]] ELSE st[id]]

\* The faults of one process_document call: the existence check, the delete of
\* a forced re-index, the batch insert and the individual inserts.
PDFaults(t, force) ==
  {f \in [check : CheckFaults, del : DeleteFaults, batch : CallOutcomes,
          ok : SUBSET (0..(NumChunks(t) - 1))] :
     /\ force => f.check = NoCheckFault
     /\ ~force => f.del = [q |-> "ok", d |-> "ok"]
     /\ f.batch = "ok" => f.ok = {}}

\* process_document, lines 294-352: chunk the text, insert the chunks into the
\* store st, build the result dict.  Returns the store after the call, the
\* result and the ids the call wrote.
index_chunks(t, filename, source_path, st, f) ==
  LET docs == documents(t, filename, source_path)
      st2 == IF DOMAIN docs = {} THEN st
             ELSE IF f.batch = "ok" THEN add_documents(st, docs, filename)
             ELSE add_individually(st, docs, filename, 0, f.ok)
  IN [store |-> st2,
      result |-> [chunks_created |-> Cardinality(DOMAIN docs), skipped |-> FALSE,
                  content_hash |-> get_document_hash(t)],
      written |-> IF DOMAIN docs = {} THEN {}
                  ELSE IF f.batch = "ok"
                       THEN {ChunkId(filename, i) : i \in DOMAIN docs}
                       ELSE {ChunkId(filename, i) : i \in f.ok \cap DOMAIN docs}]

\* process_document with the delete of a forced re-index made before the
\* existence check instead of after it.
process_document_DeleteFirst(t, filename, source_path, st, force, f) ==
  LET st1 == delete_document_from_chroma(filename, st, f.del.q, f.del.d).store
  IN IF ~force /\ is_document_in_chroma(filename, st, f.check.q1, f.check.q2)
     THEN [store |-> st1,
           result |-> [chunks_created |-> 0, skipped |-> TRUE, reason |-> "already_in_chroma"],
           written |-> {}]
     ELSE index_chunks(t, filename, source_path, st1, f)

\* process_document(text, filename, source_path, ..., vector_store, ...,
\* force_reindex) with entity extraction off (fast mode).
process_document(t, filename, source_path, st, force, f) ==
  IF ~force /\ is_document_in_chroma(filename, st, f.check.q1, f.check.q2)
  THEN [store |-> st,
        result |-> [chunks_created |-> 0, skipped |-> TRUE, reason |-> "already_in_chroma"],
        written |-> {}]
  ELSE LET st1 == IF force
                  THEN delete_document_from_chroma(filename, st, f.del.q, f.del.d).store
                  ELSE st
       IN index_chunks(t, filename, source_path, st1, f)

\* What the existence check can answer in store st, over all its faults.
\* (allow: whether calls may fail in this step.)
CheckOutcomes(filename, st, allow) ==
  {is_document_in_chroma(filename, st, c.q1, c.q2) :
     c \in IF allow THEN CheckFaults ELSE {NoCheckFault}}

\* What a process_document call can do in store st, over all its faults.
NoPDFault == [check |-> NoCheckFault, del |-> [q |-> "ok", d |-> "ok"], batch |-> "ok", ok |-> {}]
PDOutcomes(t, filename, source_path, st, force, allow) ==
  {process_document(t, filename, source_path, st, force, f) :
     f \in IF allow THEN PDFaults(t, force) ELSE {NoPDFault}}

\* ------------------------------------------------------------- the tracker
\* IndexedFilesTracker.save(): open(tracker_file, 'w') then json.dump.  The
\* open may fail (file untouched), or the dump may fail after the open has
\* truncated the file; both raise OSError.
SaveOutcomes == {"ok", "open_failed", "write_failed"}
save(led, dsk, o) ==
  CASE o = "ok" -> [disk |-> File(led), raised |-> FALSE]
    [] o = "open_failed" -> [disk |-> dsk, raised |-> TRUE]
    [] OTHER -> [disk |-> CorruptFile, raised |-> TRUE]

\* is_indexed without the comparison of modification times.
is_indexed_AnyEntry(filepath, led, fsys) ==
  filepath \in DOMAIN led /\ fsys[filepath].exists

\* IndexedFilesTracker.is_indexed(filepath)
is_indexed(filepath, led, fsys) ==
  IF filepath \notin DOMAIN led THEN FALSE
  ELSE IF ~fsys[filepath].exists THEN FALSE
  ELSE fsys[filepath].mtime <= led[filepath].mtime

\* IndexedFilesTracker.mark_indexed(filepath, stats): os.path.getmtime raises
\* OSError when the file is gone; that and an OSError of save() are caught and
\* printed, so the call always returns normally.
mark_indexed(filepath, stats, fsys, led, dsk, o) ==
  IF ~fsys[filepath].exists
  THEN [ledger |-> led, disk |-> dsk, oserror |-> TRUE, raised |-> FALSE]
  ELSE LET led1 == Put(led, filepath, [mtime |-> fsys[filepath].mtime, stats |-> stats])
       IN [ledger |-> led1, disk |-> save(led1, dsk, o).disk,
           oserror |-> save(led1, dsk, o).raised, raised |-> FALSE]

\* What mark_indexed can do when the file may vanish just before the call:
\* the file system it sees and the tracker it leaves.
MarkFaults == [vanish : BOOLEAN, save : SaveOutcomes]
NoMarkFault == [vanish |-> FALSE, save |-> "ok"]
MarkOutcome(filepath, stats, fsys, led, dsk, f) ==
  LET fs1 == IF f.vanish
             THEN [fsys EXCEPT ![filepath] = [mtime |-> 0, text |-> 0, exists |-> FALSE]]
             ELSE fsys
  IN [fs |-> fs1, m |-> mark_indexed(filepath, stats, fs1, led, dsk, f.save)]
MarkOutcomes(filepath, stats, fsys, led, dsk, allow) ==
  {MarkOutcome(filepath, stats, fsys, led, dsk, f) :
     f \in IF allow THEN MarkFaults ELSE {NoMarkFault}}

\* IndexedFilesTracker.get_all_indexed()
get_all_indexed(led) == DOMAIN led

\* IndexedFilesTracker.clear()
clear(led, dsk, o) ==
  [ledger |-> EmptyLedger, disk |-> save(EmptyLedger, dsk, o).disk,
   raised |-> save(EmptyLedger, dsk, o).raised]

\* IndexedFilesTracker.remove(filepath)
remove(filepath, led, dsk, o) ==
  IF filepath \in DOMAIN led
  THEN LET led1 == Drop(led, {filepath})
       IN [ledger |-> led1, disk |-> save(led1, dsk, o).disk,
           raised |-> save(led1, dsk, o).raised]
  ELSE [ledger |-> led, disk |-> dsk, raised |-> FALSE]

\* Reconciliation that lists the store and repairs nothing.
sync_tracker_with_chroma_NoRepair(led, dsk, st, failPage, o) ==
  [ledger |-> led, disk |-> dsk, raised |-> FALSE, count |-> 0,
   sources |-> get_indexed_sources_from_chroma(st, failPage)]

\* The reconciliation comparing the store's filenames with the ledger keys
\* themselves instead of their base names.
sync_tracker_with_chroma_KeyCompare(led, dsk, st, failPage, o) ==
  LET chroma_sources == get_indexed_sources_from_chroma(st, failPage)
      missing_from_tracker == {n \in chroma_sources : join("", n) \notin DOMAIN led}
      led1 == [k \in (DOMAIN led) \cup {join("", n) : n \in missing_from_tracker} |->
                 IF k \in DOMAIN led THEN led[k]
                 ELSE [mtime |-> 0, stats |-> [synced |-> TRUE]]]
  IN IF missing_from_tracker # {}
     THEN [ledger |-> led1, disk |-> save(led1, dsk, o).disk,
           raised |-> save(led1, dsk, o).raised,
           count |-> Cardinality(missing_from_tracker), sources |-> chroma_sources]
     ELSE [ledger |-> led, disk |-> dsk, raised |-> FALSE, count |-> 0,
           sources |-> chroma_sources]

\* sync_tracker_with_chroma(indexed_tracker, vector_store): the entries are
\* keyed by the bare filename, join("", filename); one save() after the loop,
\* whose OSError is not caught here.
sync_tracker_with_chroma(led, dsk, st, failPage, o) ==
  LET chroma_sources == get_indexed_sources_from_chroma(st, failPage)
      tracker_files == {basename(k) : k \in get_all_indexed(led)}
      missing_from_tracker == chroma_sources \ tracker_files
      led1 == [k \in (DOMAIN led) \cup {join("", n) : n \in missing_from_tracker} |->
                 IF k \in DOMAIN led THEN led[k]
                 ELSE [mtime |-> 0, stats |-> [synced |-> TRUE]]]
  IN IF missing_from_tracker # {}
     THEN [ledger |-> led1, disk |-> save(led1, dsk, o).disk,
           raised |-> save(led1, dsk, o).raised,
           count |-> Cardinality(missing_from_tracker), sources |-> chroma_sources]
     ELSE [ledger |-> led, disk |-> dsk, raised |-> FALSE, count |-> 0,
           sources |-> chroma_sources]

\* extract_text_from_file(filepath): "" for a missing file, for an extension
\* without a branch (md, html, xml) and for a file without text.
extract_text_from_file(filepath, fsys) ==
  IF fsys[filepath].exists /\ file_ext(basename(filepath)) \in {"pdf", "docx", "txt", "csv", "json"}
  THEN fsys[filepath].text
  ELSE 0

\* ------------------------------------------------------------------ state
VARIABLES
  fs,       \* the files under the document root: path -> [mtime, text, exists]
  now,      \* the clock
  store,    \* the ChromaDB collection: chunk id -> chunk record
  ledger,   \* IndexedFilesTracker.indexed_files (in memory)
  disk,     \* the tracker file: File(mapping) or CorruptFile
  up,       \* the process is running
  scan,     \* the position of scan_and_index_data_store and its locals
  resp,     \* what the last finished entry point returned, and when it was called
  lastOp,   \* the last call that changed, or could change, the store
  thr       \* the requests that run concurrently: caller -> position and locals

vars == <<fs, now, store, ledger, disk, up, scan, resp, lastOp, thr>>

\* Besides the locals of the scan: how it started (the tracker and the store it
\* was given, the filenames its reconciliation listed, the files it walks) and
\* the files it has passed to extract_text_from_file.
NoStart == [ledger |-> EmptyLedger, store |-> EmptyStore, reconciled |-> {}, files |-> {},
            after_scan |-> FALSE]
Idle == [active |-> FALSE, kind |-> "none", chroma_sources |-> {}, todo |-> <<>>,
         files_indexed |-> 0, start |-> NoStart, extracted |-> {}]
NoResp == [op |-> "none", at |-> 0]
NoOp == [op |-> "none", tick |-> 0]
Callers == {1, 2}
\* A caller's locals: the file it is indexing, the scan's enumeration of the
\* store and the files it still has to visit, and the filenames for which it
\* passed the existence check as "not indexed" and then inserted chunks.
IdleCaller == [pc |-> "idle", kind |-> "none", filename |-> "", path |-> <<"", "">>, text |-> 0,
               chroma_sources |-> {}, todo |-> <<>>, indexed |-> {}]

\* os.walk(UPLOAD_FOLDER): the files of the document root, then those of its
\* subfolder, each directory in listing order.
RECURSIVE InOrder(_)
InOrder(S) ==
  IF S = {} THEN <<>>
  ELSE LET p == CHOOSE x \in S : \A y \in S :
                  \/ x = y
                  \/ (x[1] = UPLOAD_FOLDER /\ y[1] # UPLOAD_FOLDER)
                  \/ (x[1] = y[1] /\ x[2] = "a.txt")
       IN <<p>> \o InOrder(S \ {p})
walk(fsys) == InOrder({p \in Paths : fsys[p].exists})

\* The record of a process_document call, kept in lastOp.
CallRecord(t, filename, source_path, force, r, st) ==
  [op |-> "process_document", tick |-> 1 - lastOp.tick, text |-> t, filename |-> filename,
   source_path |-> source_path, force |-> force, result |-> r.result, written |-> r.written,
   before |-> st]

\* A request may meet failing calls when the clock has two ticks left, a step
\* of the scan when it has one.
AllowFault == now + (IF scan.active THEN 1 ELSE 2) <= MaxOps
Tick(clean) == now' = now + (IF scan.active THEN 0 ELSE 1) + (IF clean THEN 0 ELSE 1)

\* A fresh installation: no documents, an empty collection, no tracker file;
\* the start-up scan of an empty document root has found nothing.
Init ==
  /\ fs = [p \in Paths |-> NoFile]
  /\ now = 0
  /\ store = EmptyStore
  /\ ledger = EmptyLedger
  /\ disk = File(EmptyLedger)
  /\ up = TRUE
  /\ scan = Idle
  /\ resp = NoResp
  /\ lastOp = NoOp
  /\ thr = [c \in Callers |-> IdleCaller]

\* ------------------------------------------------------------ environment
\* A user puts a file under the document root, or edits one.
WriteFile(p, t) ==
  /\ ~scan.active /\ now < MaxOps
  /\ now' = now + 1
  /\ fs' = [fs EXCEPT ![p] = [mtime |-> now + 1, text |-> t, exists |-> TRUE]]
  /\ UNCHANGED <<store, ledger, disk, up, scan, resp, lastOp, thr>>

\* A user removes a file from the document root.
RemoveFile(p) ==
  /\ ~scan.active /\ now < MaxOps
  /\ now' = now + 1
  /\ fs[p].exists
  /\ fs' = [fs EXCEPT ![p] = NoFile]
  /\ UNCHANGED <<store, ledger, disk, up, scan, resp, lastOp, thr>>

\* The tracker file is lost (deleted, volume replaced).
LedgerLost ==
  /\ ~scan.active /\ now < MaxOps
  /\ now' = now + 1
  /\ disk # File(EmptyLedger)
  /\ disk' = File(EmptyLedger)
  /\ UNCHANGED <<fs, store, ledger, up, scan, resp, lastOp, thr>>

\* ------------------------------------------------------------------ scan
\* The caller of the scan hands it the store st right after a scan has
\* returned: nothing was served and no file was touched in between, and the
\* store is as that scan left it.
AfterScan(st) ==
  /\ resp.op \in {"startup", "reindex"} /\ ~resp.error
  /\ resp.at = now
  /\ st = store

\* scan_and_index_data_store, lines 393-406: reconcile, enumerate the store,
\* start the walk at the document root.  led, dsk, st are the tracker and the
\* store as the caller left them; clean: no call of the caller failed.
ScanFaults == [syncList : ListFaults, save : SaveOutcomes, scanList : ListFaults]
NoScanFault == [syncList |-> -1, save |-> "ok", scanList |-> -1]
BeginOutcome(kind, led, dsk, st, f) ==
  LET s == sync_tracker_with_chroma(led, dsk, st, f.syncList, f.save)
  IN [ledger |-> s.ledger, disk |-> s.disk, raised |-> s.raised,
      scan |-> IF s.raised THEN Idle
               ELSE [active |-> TRUE, kind |-> kind,
                     chroma_sources |-> get_indexed_sources_from_chroma(st, f.scanList),
                     todo |-> walk(fs), files_indexed |-> 0,
                     start |-> [ledger |-> led, store |-> st, reconciled |-> s.sources,
                                files |-> {p \in Paths : fs[p].exists},
                                after_scan |-> AfterScan(st)],
                     extracted |-> {}]]
BeginScan(kind, led, dsk, st, clean) ==
  \E b \in {BeginOutcome(kind, led, dsk, st, f) :
              f \in IF AllowFault THEN ScanFaults ELSE {NoScanFault}} :
    /\ ledger' = b.ledger
    /\ disk' = b.disk
    /\ scan' = b.scan
    /\ up' = (kind # "startup" \/ ~b.raised)
    /\ resp' = IF b.raised THEN [op |-> kind, error |-> TRUE, at |-> now] ELSE NoResp
    /\ Tick(clean /\ b = BeginOutcome(kind, led, dsk, st, NoScanFault))

\* scan_and_index_data_store, lines 407-447: the loop body for one file.
ScanFile ==
  /\ up /\ scan.active /\ scan.todo # <<>>
  /\ LET filepath == Head(scan.todo)
         filename == basename(filepath)
         rest == [scan EXCEPT !.todo = Tail(@)]
         read == [rest EXCEPT !.extracted = @ \cup {filepath}]
         sync_stats == [synced_from_chroma |-> TRUE]
     IN IF file_ext(filename) \notin SUPPORTED_EXTENSIONS \/ is_indexed(filepath, ledger, fs)
        THEN /\ scan' = rest
             /\ UNCHANGED <<fs, now, store, ledger, disk, lastOp>>
        ELSE IF filename \in scan.chroma_sources
        THEN \E x \in MarkOutcomes(filepath, sync_stats, fs, ledger, disk, AllowFault) :
               /\ fs' = x.fs
               /\ ledger' = x.m.ledger
               /\ disk' = x.m.disk
               /\ scan' = rest
               /\ Tick(x = MarkOutcome(filepath, sync_stats, fs, ledger, disk, NoMarkFault))
               /\ UNCHANGED <<store, lastOp>>
        ELSE LET t == extract_text_from_file(filepath, fs)
             IN IF ~HasText(t)
                THEN /\ scan' = read
                     /\ UNCHANGED <<fs, now, store, ledger, disk, lastOp>>
                ELSE \E r \in PDOutcomes(t, filename, filepath, store, FALSE, AllowFault) :
                       /\ store' = r.store
                       /\ lastOp' = CallRecord(t, filename, filepath, FALSE, r, store)
                       /\ IF r.result.skipped
                          THEN /\ scan' = read
                               /\ Tick(r = process_document(t, filename, filepath, store,
                                                              FALSE, NoPDFault))
                               /\ UNCHANGED <<fs, ledger, disk>>
                          ELSE \E x \in MarkOutcomes(filepath, r.result, fs, ledger, disk,
                                                     AllowFault) :
                                 /\ fs' = x.fs
                                 /\ ledger' = x.m.ledger
                                 /\ disk' = x.m.disk
                                 /\ scan' = [read EXCEPT !.files_indexed = @ + 1]
                                 /\ Tick(/\ r = process_document(t, filename, filepath, store,
                                                                   FALSE, NoPDFault)
                                           /\ x = MarkOutcome(filepath, r.result, fs, ledger,
                                                              disk, NoMarkFault))
  /\ UNCHANGED <<up, resp, thr>>

\* scan_and_index_data_store, lines 449-456: the walk is over.
ScanEnd ==
  /\ up /\ scan.active /\ scan.todo = <<>>
  /\ scan' = Idle
  /\ resp' = [op |-> scan.kind, error |-> FALSE, files_indexed |-> scan.files_indexed,
              at |-> now]
  /\ UNCHANGED <<fs, now, store, ledger, disk, up, lastOp, thr>>

\* ------------------------------------------------------------ entry points
\* graphrag_app.py start-up: the tracker is loaded from its file; when the
\* collection cannot be used with the embedding model it is removed and the
\* tracker cleared; then the start-up scan runs.  A tracker file that does not
\* parse, or a failing save, ends the start-up.
Restart(reset) ==
  /\ ~scan.active /\ now < MaxOps
  /\ UNCHANGED <<fs, thr>>
  /\ lastOp' = IF reset /\ disk # CorruptFile
               THEN [op |-> "reset", tick |-> 1 - lastOp.tick] ELSE lastOp
  /\ IF disk = CorruptFile
     THEN /\ up' = FALSE /\ scan' = Idle /\ resp' = [op |-> "startup", error |-> TRUE, at |-> now]
          /\ now' = now + 1
          /\ UNCHANGED <<store, ledger, disk>>
     ELSE IF ~reset
     THEN /\ store' = store
          /\ BeginScan("startup", disk.entries, disk, store, TRUE)
     ELSE /\ store' = EmptyStore
          /\ \E o \in IF AllowFault THEN SaveOutcomes ELSE {"ok"} :
               LET c == clear(disk.entries, disk, o)
               IN IF c.raised
                  THEN /\ up' = FALSE /\ scan' = Idle
                       /\ resp' = [op |-> "startup", error |-> TRUE, at |-> now]
                       /\ ledger' = c.ledger /\ disk' = c.disk
                       /\ Tick(FALSE)
                  ELSE BeginScan("startup", c.ledger, c.disk, EmptyStore, TRUE)

\* POST /reindex: clear the tracker, then scan.
Reindex ==
  /\ up /\ ~scan.active /\ now < MaxOps
  /\ \E o \in IF AllowFault THEN SaveOutcomes ELSE {"ok"} :
       LET c == clear(ledger, disk, o)
       IN IF c.raised
          THEN /\ ledger' = c.ledger /\ disk' = c.disk
               /\ resp' = [op |-> "reindex", error |-> TRUE, at |-> now]
               /\ Tick(FALSE)
               /\ UNCHANGED <<up, scan>>
          ELSE BeginScan("reindex", c.ledger, c.disk, store, TRUE)
  /\ UNCHANGED <<fs, store, lastOp, thr>>

\* POST /upload with file content t under the (secure) name filename.
Upload(filename, t, force) ==
  /\ up /\ ~scan.active /\ now < MaxOps
  /\ \E found \in CheckOutcomes(filename, store, AllowFault) :
       LET cleanCheck == (force \/ found = is_document_in_chroma(filename, store, "ok", "ok"))
       IN
       IF ~force /\ found
       THEN /\ resp' = [op |-> "upload", filename |-> filename, outcome |-> "skipped",
                        saved |-> FALSE, marked |-> FALSE, at |-> now]
            /\ Tick(cleanCheck)
            /\ UNCHANGED <<fs, store, ledger, disk, lastOp>>
       ELSE LET filepath == join(UPLOAD_FOLDER, filename)
                fs1 == [fs EXCEPT ![filepath] = [mtime |-> now + 1, text |-> t, exists |-> TRUE]]
                text == extract_text_from_file(filepath, fs1)
            IN IF ~HasText(text)
               THEN /\ fs' = fs1
                    /\ resp' = [op |-> "upload", filename |-> filename, outcome |-> "no_text",
                                saved |-> TRUE, marked |-> FALSE, at |-> now]
                    /\ Tick(cleanCheck)
                    /\ UNCHANGED <<store, ledger, disk, lastOp>>
               ELSE \E r \in PDOutcomes(text, filename, filepath, store, force, AllowFault) :
                      LET cleanPD == r = process_document(text, filename, filepath, store,
                                                          force, NoPDFault)
                      IN
                      /\ store' = r.store
                      /\ lastOp' = CallRecord(text, filename, filepath, force, r, store)
                      /\ IF r.result.skipped
                         THEN /\ fs' = fs1
                              /\ resp' = [op |-> "upload", filename |-> filename,
                                          outcome |-> "skipped", saved |-> TRUE,
                                          marked |-> FALSE, at |-> now]
                              /\ Tick(cleanCheck /\ cleanPD)
                              /\ UNCHANGED <<ledger, disk>>
                         ELSE \E x \in MarkOutcomes(filepath, r.result, fs1, ledger, disk,
                                                    AllowFault) :
                                /\ fs' = x.fs
                                /\ ledger' = x.m.ledger
                                /\ disk' = x.m.disk
                                /\ resp' = [op |-> "upload", filename |-> filename,
                                            outcome |-> "success", saved |-> TRUE,
                                            marked |-> TRUE, at |-> now]
                                /\ Tick(/\ cleanCheck /\ cleanPD
                                          /\ x = MarkOutcome(filepath, r.result, fs1, ledger,
                                                             disk, NoMarkFault))
  /\ UNCHANGED <<up, scan, thr>>

\* POST /delete-document
Delete(filename, delete_file) ==
  /\ up /\ ~scan.active /\ now < MaxOps
  /\ \E f \in IF AllowFault THEN DeleteFaults ELSE {[q |-> "ok", d |-> "ok"]},
        o \in IF AllowFault THEN SaveOutcomes ELSE {"ok"} :
       LET filepath == join(UPLOAD_FOLDER, filename)
           d == delete_document_from_chroma(filename, store, f.q, f.d)
           rm == remove(filepath, ledger, disk, o)
       IN /\ store' = d.store
          /\ lastOp' = [op |-> "delete", tick |-> 1 - lastOp.tick]
          /\ ledger' = rm.ledger
          /\ disk' = rm.disk
          /\ Tick(/\ d = delete_document_from_chroma(filename, store, "ok", "ok")
                    /\ rm = remove(filepath, ledger, disk, "ok"))
          /\ IF rm.raised
             THEN /\ resp' = [op |-> "delete", filename |-> filename, error |-> TRUE, at |-> now]
                  /\ fs' = fs
             ELSE /\ resp' = [op |-> "delete", filename |-> filename, error |-> FALSE,
                              chunks_deleted |-> d.deleted_count, at |-> now]
                  /\ fs' = IF delete_file THEN [fs EXCEPT ![filepath] = NoFile] ELSE fs
  /\ UNCHANGED <<up, scan, thr>>

\* POST /check-indexed
CheckIndexed(filename) ==
  /\ up /\ ~scan.active /\ now < MaxOps
  /\ \E in_chroma \in CheckOutcomes(filename, store, AllowFault) :
       LET in_tracker == is_indexed(join(UPLOAD_FOLDER, filename), ledger, fs)
       IN /\ resp' = [op |-> "check_indexed", filename |-> filename, in_chroma |-> in_chroma,
                      in_tracker |-> in_tracker, is_indexed |-> (in_chroma \/ in_tracker),
                      at |-> now]
          /\ Tick(in_chroma = is_document_in_chroma(filename, store, "ok", "ok"))
  /\ UNCHANGED <<fs, store, ledger, disk, up, scan, lastOp, thr>>

Next ==
  \/ \E p \in Paths, t \in Texts : WriteFile(p, t)
  \/ \E p \in Paths : RemoveFile(p)
  \/ LedgerLost
  \/ \E reset \in BOOLEAN : Restart(reset)
  \/ Reindex
  \/ \E n \in Names, t \in Texts, force \in BOOLEAN : Upload(n, t, force)
  \/ \E n \in Names, delete_file \in BOOLEAN : Delete(n, delete_file)
  \/ \E n \in Names : CheckIndexed(n)
  \/ ScanFile
  \/ ScanEnd

Spec == Init /\ [][Next]_vars

\* ------------------------------------------------------ concurrent requests
\* The Flask development server (app.run, graphrag_app.py line 1180) serves
\* each request in a thread of its own, and neither the routes nor
\* process_document take a lock: the calls a request makes to the store, the
\* file system and the tracker interleave with those of another request.
\* Two requests, each an /upload or a /reindex, run here step by step; no
\* call fails.

\* POST /upload arrives at caller c (lines 259-265).
CUploadStart(c, filename, t) ==
  /\ up /\ thr[c].pc = "idle"
  /\ thr' = [thr EXCEPT ![c] = [@ EXCEPT !.pc = "precheck", !.kind = "upload",
                                          !.filename = filename, !.text = t,
                                          !.path = join(UPLOAD_FOLDER, filename)]]
  /\ UNCHANGED <<fs, now, store, ledger, disk, up, scan, resp, lastOp>>

\* upload_file, lines 267-276: the check before the file is saved.
CPreCheck(c) ==
  /\ thr[c].pc = "precheck"
  /\ thr' = [thr EXCEPT ![c].pc =
               IF is_document_in_chroma(thr[c].filename, store, "ok", "ok")
               THEN "done" ELSE "save"]
  /\ UNCHANGED <<fs, now, store, ledger, disk, up, scan, resp, lastOp>>

\* upload_file, lines 278-287: file.save and extract_text_from_file.
CSave(c) ==
  /\ thr[c].pc = "save"
  /\ now' = now + 1
  /\ fs' = [fs EXCEPT ![thr[c].path] = [mtime |-> now + 1, text |-> thr[c].text,
                                        exists |-> TRUE]]
  /\ thr' = [thr EXCEPT ![c].pc =
               IF HasText(extract_text_from_file(thr[c].path, fs')) THEN "pdcheck" ELSE "done"]
  /\ UNCHANGED <<store, ledger, disk, up, scan, resp, lastOp>>

\* POST /reindex arrives at caller c: clear the tracker, reconcile, enumerate
\* the store, list the document root (lines 691-697 and 393-406).
CReindexStart(c) ==
  /\ up /\ thr[c].pc = "idle"
  /\ LET cl == clear(ledger, disk, "ok")
         s == sync_tracker_with_chroma(cl.ledger, cl.disk, store, -1, "ok")
     IN /\ ledger' = s.ledger
        /\ disk' = s.disk
        /\ thr' = [thr EXCEPT ![c] = [@ EXCEPT !.pc = "loop", !.kind = "reindex",
                     !.chroma_sources = get_indexed_sources_from_chroma(store, -1),
                     !.todo = walk(fs)]]
  /\ UNCHANGED <<fs, now, store, up, scan, resp, lastOp>>

\* scan_and_index_data_store, lines 406-436: the next file of the walk, up to
\* the call of process_document.
CScanNext(c) ==
  /\ thr[c].pc = "loop"
  /\ IF thr[c].todo = <<>>
     THEN /\ thr' = [thr EXCEPT ![c].pc = "done"]
          /\ UNCHANGED <<ledger, disk>>
     ELSE LET filepath == Head(thr[c].todo)
              filename == basename(filepath)
              rest == [thr[c] EXCEPT !.todo = Tail(@)]
              t == extract_text_from_file(filepath, fs)
          IN IF file_ext(filename) \notin SUPPORTED_EXTENSIONS
                \/ is_indexed(filepath, ledger, fs)
             THEN /\ thr' = [thr EXCEPT ![c] = rest]
                  /\ UNCHANGED <<ledger, disk>>
             ELSE IF filename \in thr[c].chroma_sources
             THEN LET m == mark_indexed(filepath, [synced_from_chroma |-> TRUE], fs,
                                        ledger, disk, "ok")
                  IN /\ ledger' = m.ledger
                     /\ disk' = m.disk
                     /\ thr' = [thr EXCEPT ![c] = rest]
             ELSE /\ thr' = [thr EXCEPT ![c] =
                               IF HasText(t)
                               THEN [rest EXCEPT !.pc = "pdcheck", !.filename = filename,
                                                 !.path = filepath, !.text = t]
                               ELSE rest]
                  /\ UNCHANGED <<ledger, disk>>
  /\ UNCHANGED <<fs, now, store, up, scan, resp, lastOp>>

\* process_document, lines 217-227: the existence check.
CPDCheck(c) ==
  /\ thr[c].pc = "pdcheck"
  /\ thr' = [thr EXCEPT ![c].pc =
               IF is_document_in_chroma(thr[c].filename, store, "ok", "ok")
               THEN (IF thr[c].kind = "reindex" THEN "loop" ELSE "done")
               ELSE "insert"]
  /\ UNCHANGED <<fs, now, store, ledger, disk, up, scan, resp, lastOp>>

\* process_document, lines 294-326: split, build the documents, insert them.
CInsert(c) ==
  /\ thr[c].pc = "insert"
  /\ store' = add_documents(store, documents(thr[c].text, thr[c].filename, thr[c].path),
                            thr[c].filename)
  /\ thr' = [thr EXCEPT ![c] = [@ EXCEPT !.pc = "mark", !.indexed = @ \cup {thr[c].filename}]]
  /\ UNCHANGED <<fs, now, ledger, disk, up, scan, resp, lastOp>>

\* The caller's mark_indexed after process_document returned (upload_file
\* line 318, scan_and_index_data_store line 439).
CMark(c) ==
  /\ thr[c].pc = "mark"
  /\ LET m == mark_indexed(thr[c].path,
                           [chunks_created |-> NumChunks(thr[c].text), skipped |-> FALSE,
                            content_hash |-> get_document_hash(thr[c].text)],
                           fs, ledger, disk, "ok")
     IN /\ ledger' = m.ledger
        /\ disk' = m.disk
  /\ thr' = [thr EXCEPT ![c].pc = IF thr[c].kind = "reindex" THEN "loop" ELSE "done"]
  /\ UNCHANGED <<fs, now, store, up, scan, resp, lastOp>>

NextConc ==
  \/ \E c \in Callers, n \in Names, t \in Texts : CUploadStart(c, n, t)
  \/ \E c \in Callers : CPreCheck(c)
  \/ \E c \in Callers : CSave(c)
  \/ \E c \in Callers : CReindexStart(c)
  \/ \E c \in Callers : CScanNext(c)
  \/ \E c \in Callers : CPDCheck(c)
  \/ \E c \in Callers : CInsert(c)
  \/ \E c \in Callers : CMark(c)

SpecConc == Init /\ [][NextConc]_vars

\* --------------------------------------------- the indexing engine alone
\* document_processor.py called directly, as /upload and the scan call it:
\* process_document for any file of the document root and any text, with or
\* without force_reindex, and delete_document_from_chroma for any filename,
\* each call with any of its store calls failing.  Only the collection
\* changes.
CallProcessDocument(filepath, t, force) ==
  /\ \E r \in PDOutcomes(t, basename(filepath), filepath, store, force, TRUE) :
       store' = r.store
  /\ UNCHANGED <<fs, now, ledger, disk, up, scan, resp, lastOp, thr>>

CallDelete(filename) ==
  /\ \E f \in DeleteFaults :
       store' = delete_document_from_chroma(filename, store, f.q, f.d).store
  /\ UNCHANGED <<fs, now, ledger, disk, up, scan, resp, lastOp, thr>>

NextStore ==
  \/ \E p \in Paths, t \in Texts \ {0}, force \in BOOLEAN : CallProcessDocument(p, t, force)
  \/ \E n \in Names : CallDelete(n)

SpecStore == Init /\ [][NextStore]_vars

\* ------------------------------------------------------------------ claims
\* This step made a call of process_document.
NewCall == lastOp'.op = "process_document" /\ lastOp'.tick # lastOp.tick
\* This step served a POST /upload.
FreshUpload == resp'.op = "upload" /\ resp'.at = now /\ now' > now

C2_Serialized ==
  \A c1, c2 \in Callers : c1 # c2 => thr[c1].indexed \cap thr[c2].indexed = {}

\* The scan has visited every file; the files whose filename the store held
\* when the scan started.
ScanDone == scan.active /\ scan.todo = <<>>
Covered == {p \in scan.start.files : basename(p) \in AllSources(scan.start.store)}
Untouched(filename) ==
  /\ SourceIds(store, filename) = SourceIds(scan.start.store, filename)
  /\ \A id \in SourceIds(store, filename) : store[id] = scan.start.store[id]

C4_LedgerAfterStoreWrite ==
  [][(NewCall /\ ledger' # ledger) => lastOp'.written # {}]_vars

\* C5: the existence check reports a filename as present whenever the
\* metadata query returns a match or chunk id "<filename>_0" can be fetched,
\* also when the metadata query fails or answers nothing.
C5_BothProbesTried ==
  \A n \in Names, q1 \in QueryOutcomes :
    /\ (q1 = "ok" /\ SourceIds(store, n) # {}) => is_document_in_chroma(n, store, q1, "ok")
    /\ ChunkId(n, 0) \in DOMAIN store => is_document_in_chroma(n, store, q1, "ok")

\* C6, as stated: a skipped process_document call leaves the store and the
\* ledger unchanged, and an upload that is skipped has not saved the uploaded
\* file to the document root nor marked it in the ledger.
C6_SkipWithoutSideEffects ==
  [][/\ (NewCall /\ lastOp'.result.skipped) =>
          (/\ lastOp'.result.reason = "already_in_chroma"
           /\ store' = store /\ ledger' = ledger /\ disk' = disk)
     /\ (FreshUpload /\ resp'.outcome = "skipped") =>
          (fs' = fs /\ store' = store /\ ledger' = ledger /\ disk' = disk)]_vars

\* C6, amended: a skipped process_document call leaves the store and the
\* ledger unchanged; an upload skipped by the route's own existence check
\* (the one made before the file is saved, so process_document is not
\* called) has not saved the file; an upload skipped by process_document has
\* saved the file and changed nothing else.
C6_SkipSideEffects ==
  [][/\ (NewCall /\ lastOp'.result.skipped) =>
          (/\ lastOp'.result.reason = "already_in_chroma"
           /\ SourceIds(store, lastOp'.filename) # {}
           /\ store' = store /\ ledger' = ledger /\ disk' = disk)
     /\ (FreshUpload /\ resp'.outcome = "skipped") =>
          (/\ store' = store /\ ledger' = ledger /\ disk' = disk
           /\ ~NewCall => fs' = fs
           /\ NewCall =>
                \A p \in Paths : p # join(UPLOAD_FOLDER, resp'.filename) => fs'[p] = fs[p])]_vars

\* An upload of a stored filename, skipped before the file was saved.
C6_Witness ==
  /\ resp.op = "upload" /\ resp.outcome = "skipped" /\ ~resp.saved
  /\ SourceIds(store, resp.filename) # {}
  /\ lastOp.op = "process_document" /\ lastOp.filename = resp.filename
  /\ ~lastOp.result.skipped

\* C7: after a process_document call with force_reindex, the store holds for
\* the filename only chunks cut from the new text, none with an index at or
\* beyond the new number of chunks.
C7_ForceReplaces ==
  [][(NewCall /\ lastOp'.force) =>
       \A id \in SourceIds(store', lastOp'.filename) :
         /\ store'[id].page_content.text = lastOp'.text
         /\ store'[id].content_hash = get_document_hash(lastOp'.text)
         /\ store'[id].chunk_index < NumChunks(lastOp'.text)]_vars

\* C8: when the modification time of the file cannot be read at mark_indexed
\* (the file has vanished), the caller does not report or count the file as
\* indexed: the upload does not answer success, the scan does not increment
\* files_indexed.
C8_MarkFailsLoudly ==
  [][/\ (FreshUpload /\ ~fs'[join(UPLOAD_FOLDER, resp'.filename)].exists) =>
          resp'.outcome # "success"
     /\ (scan.active /\ scan'.active /\ scan'.files_indexed > scan.files_indexed) =>
          fs'[Head(scan.todo)].exists]_vars

\* C9: when the write of the ledger file fails during mark_indexed, the error
\* reaches the caller: an upload whose mark_indexed could not write the file
\* does not answer success.
C9_SaveFailurePropagates ==
  [][(FreshUpload /\ ledger' # ledger /\ disk' # File(ledger')) =>
       resp'.outcome # "success"]_vars

\* C10: every step that changes the in-memory ledger and completes without
\* an error leaves the ledger file equal to the in-memory ledger.
C10_FlushedImmediately ==
  [][(/\ ledger' # ledger
      /\ ~(resp' # resp /\ resp'.op \in {"startup", "reindex", "delete"} /\ resp'.error)) =>
       disk' = File(ledger')]_vars

\* This step served a POST /check-indexed.
FreshCheck == resp'.op = "check_indexed" /\ resp'.at = now /\ now' > now
\* The ledger has an entry for path p and the file's modification time is
\* not later than the recorded one.
Current(p, led, fsys) ==
  p \in DOMAIN led /\ fsys[p].exists /\ fsys[p].mtime <= led[p].mtime

\* C11: is_indexed(path) is true exactly when the ledger has an entry for the
\* path and the file's modification time is at most the recorded one (this is
\* what /check-indexed reports as in_tracker); when the modification time of
\* a file that is_indexed advances, is_indexed becomes false and the entry
\* stays.
C11_IsIndexed ==
  [][/\ \A p \in Paths : is_indexed(p, ledger', fs') <=> Current(p, ledger', fs')
     /\ FreshCheck =>
          (resp'.in_tracker <=> Current(join(UPLOAD_FOLDER, resp'.filename), ledger, fs))
     /\ \A p \in Paths :
          (/\ is_indexed(p, ledger, fs) /\ ledger' = ledger
           /\ fs'[p].exists /\ fs'[p].mtime > fs[p].mtime) =>
            (~is_indexed(p, ledger', fs') /\ p \in DOMAIN ledger')]_vars

\* /check-indexed has answered in_tracker = false for a file that has a
\* ledger entry and was modified after it was marked.
C11_Witness ==
  /\ resp.op = "check_indexed" /\ ~resp.in_tracker
  /\ LET p == join(UPLOAD_FOLDER, resp.filename)
     IN /\ p \in DOMAIN ledger /\ fs[p].exists
        /\ fs[p].mtime > ledger[p].mtime /\ ledger[p].mtime > 0

\* Every filename that has a chunk in store st has its chunk 0 there.
HasChunkZero(st) == \A n \in AllSources(st) : ChunkId(n, 0) \in DOMAIN st

\* C12, as stated: in every reachable state every filename with a chunk in
\* the store has its chunk 0 in the store.
C12_ChunkZero == HasChunkZero(store)

\* C12, amended: every step keeps this property of the store, except a
\* process_document call whose insert of chunk 0 failed (the batch insert and
\* the individual insert of chunk 0 both raised).
C12_ChunkZeroKept ==
  [][(/\ HasChunkZero(store)
      /\ ~(/\ NewCall /\ ~lastOp'.result.skipped
           /\ ChunkId(lastOp'.filename, 0) \notin lastOp'.written)) =>
       HasChunkZero(store')]_vars

\* A call whose batch insert failed, whose individual insert of chunk 0
\* succeeded and that of another chunk failed.
C12_Witness ==
  /\ lastOp.op = "process_document" /\ ~lastOp.result.skipped
  /\ ChunkId(lastOp.filename, 0) \in lastOp.written
  /\ Cardinality(lastOp.written) < lastOp.result.chunks_created
  /\ HasChunkZero(store)

\* The ids "<filename>_0" .. "<filename>_(N-1)" of a document of text t.
DocIds(filename, t) == {ChunkId(filename, i) : i \in 0..(NumChunks(t) - 1)}
\* The chunk stored in st under id is chunk id[2] of the N chunks of text t.
Numbered(st, id, t) ==
  /\ id \in DOMAIN st
  /\ st[id].chunk_index = id[2]
  /\ st[id].total_chunks = NumChunks(t)
  /\ st[id].source = id[1]

\* C13, as stated: in every store, a non-skipped process_document call for a
\* text of N chunks stores its chunks under exactly the ids "<filename>_0" ..
\* "<filename>_(N-1)", without gaps, and the chunk under "<filename>_i" has
\* chunk_index i and total_chunks N.
C13_IdsExact ==
  \A n \in Names, t \in Texts \ {0}, force \in BOOLEAN :
    \A f \in PDFaults(t, force) :
      LET r == process_document(t, n, join(UPLOAD_FOLDER, n), store, force, f)
      IN ~r.result.skipped =>
           /\ r.written = DocIds(n, t)
           /\ \A id \in DocIds(n, t) : Numbered(r.store, id, t)

\* C13, amended: the chunks a non-skipped call stores are stored under ids
\* among "<filename>_0" .. "<filename>_(N-1)", the chunk under "<filename>_i"
\* has chunk_index i and total_chunks N, and the call reports
\* chunks_created = N; when the batch insert succeeds the ids are exactly
\* those N, when it fails the ids of the chunks whose individual insert
\* failed are missing.
C13_IdsDetermined ==
  \A n \in Names, t \in Texts \ {0}, force \in BOOLEAN :
    \A f \in PDFaults(t, force) :
      LET r == process_document(t, n, join(UPLOAD_FOLDER, n), store, force, f)
      IN ~r.result.skipped =>
           /\ r.result.chunks_created = NumChunks(t)
           /\ r.written \subseteq DocIds(n, t)
           /\ r.written = IF f.batch = "ok" THEN DocIds(n, t)
                          ELSE {ChunkId(n, i) : i \in f.ok}
           /\ \A id \in r.written : Numbered(r.store, id, t)

\* A call has stored all chunks of a text of more than one chunk, and the
\* store holds no other chunk of that filename.
C13_Witness ==
  \E n \in Names, t \in Texts :
    /\ NumChunks(t) > 1
    /\ SourceIds(store, n) = DocIds(n, t)
    /\ \A id \in DocIds(n, t) :
         Numbered(store, id, t) /\ store[id].content_hash = get_document_hash(t)

\* C14: every chunk in the store carries the fingerprint of the text it was
\* cut from, all chunks of one filename carry the same fingerprint, and after
\* a call that indexed a text under a filename it is the fingerprint of that
\* text.
C14_FingerprintProvenance ==
  /\ \A id \in DOMAIN store :
       store[id].content_hash = get_document_hash(store[id].page_content.text)
  /\ \A id1, id2 \in DOMAIN store :
       store[id1].source = store[id2].source =>
         store[id1].content_hash = store[id2].content_hash
  /\ (lastOp.op = "process_document" /\ lastOp.written # {}) =>
       \A id \in SourceIds(store, lastOp.filename) :
         store[id].content_hash = get_document_hash(lastOp.text)

\* The faults of a call whose batch insert fails and whose individual inserts
\* all succeed.
BatchOnlyFails(t) ==
  [check |-> NoCheckFault, del |-> [q |-> "ok", d |-> "ok"], batch |-> "error",
   ok |-> 0..(NumChunks(t) - 1)]

\* C15: when the batch insert fails and every individual insert succeeds,
\* process_document returns a non-skipped result with chunks_created = N, no
\* chunk is dropped and the store holds all N chunks of the document.
C15_DegradeOnBatchFailure ==
  \A n \in Names, t \in Texts \ {0}, force \in BOOLEAN :
    LET r == process_document(t, n, join(UPLOAD_FOLDER, n), store, force, BatchOnlyFails(t))
    IN (force \/ ~is_document_in_chroma(n, store, "ok", "ok")) =>
         /\ ~r.result.skipped
         /\ r.result.chunks_created = NumChunks(t)
         /\ r.written = DocIds(n, t)
         /\ \A id \in DocIds(n, t) :
              /\ Numbered(r.store, id, t)
              /\ r.store[id].content_hash = get_document_hash(t)
              /\ r.store[id].page_content.text = t
              /\ r.store[id].page_content.idx = id[2]

\* A call stored every chunk of its text through the individual fallback:
\* no chunk is longer than the fallback cap and one of them is cut to it.
C15_Witness ==
  \E n \in Names, t \in Texts \ {0} :
    /\ SourceIds(store, n) = DocIds(n, t)
    /\ \A id \in DocIds(n, t) :
         /\ Numbered(store, id, t)
         /\ store[id].page_content.text = t
         /\ store[id].page_content.len <= FALLBACK_CHUNK_CHARS
    /\ \E id \in DocIds(n, t) :
         /\ store[id].page_content.len = FALLBACK_CHUNK_CHARS
         /\ store[id].page_content.marks = 1

\* C16: every chunk longer than MAX_CHUNK_CHARS that a call stores, by the
\* batch insert or by an individual insert, is stored as its first
\* MAX_CHUNK_CHARS characters followed by the marker "...".
C16_TruncationPolicy ==
  (lastOp.op = "process_document" /\ ~lastOp.result.skipped) =>
    \A id \in lastOp.written :
      LET chunk == split_text(lastOp.text)[id[2]]
      IN ContentLen(chunk) > MAX_CHUNK_CHARS =>
           /\ id \in DOMAIN store
           /\ store[id].page_content = Truncate(chunk, MAX_CHUNK_CHARS)
           /\ store[id].page_content.len = MAX_CHUNK_CHARS

\* The chunk ids a result reports as dropped (none when it has no such list).
ReportedDropped(result) ==
  IF "dropped_chunk_ids" \in DOMAIN result THEN result.dropped_chunk_ids ELSE {}

\* C17: the result of a non-skipped process_document call reports as
\* chunks_created the number of chunks the call wrote to the store, and as
\* dropped exactly the ids of the document it could not insert.
C17_DroppedReported ==
  (lastOp.op = "process_document" /\ ~lastOp.result.skipped) =>
    /\ lastOp.result.chunks_created = Cardinality(lastOp.written)
    /\ ReportedDropped(lastOp.result) = DocIds(lastOp.filename, lastOp.text) \ lastOp.written

\* The supported files with extractable text that a scan found under the
\* document root.
Extractable ==
  {p \in scan.start.files : /\ file_ext(basename(p)) \in SUPPORTED_EXTENSIONS
                            /\ fs[p].exists
                            /\ HasText(extract_text_from_file(p, fs))}

\* C18: when the scan of a POST /reindex is over, every supported file with
\* extractable text under the document root has been extracted again, the
\* store holds chunks for its filename, and files_indexed is the number of
\* those files, whatever the store held before the operation.
C18_ForcedReindex ==
  (ScanDone /\ scan.kind = "reindex") =>
    /\ Extractable \subseteq scan.extracted
    /\ \A p \in Extractable : SourceIds(store, basename(p)) # {}
    /\ scan.files_indexed = Cardinality(Extractable)

\* This step served a POST /delete-document that reported success.
FreshDelete == resp'.op = "delete" /\ resp'.at = now /\ now' > now /\ ~resp'.error

\* C19: after POST /delete-document for a filename reports success, the store
\* holds no chunk whose source is that filename, the ledger has no key whose
\* basename is that filename, and a check-indexed for it answers false.
C19_DeleteBothStores ==
  [][FreshDelete =>
       /\ SourceIds(store', resp'.filename) = {}
       /\ \A p \in DOMAIN ledger' : basename(p) # resp'.filename
       /\ ~is_document_in_chroma(resp'.filename, store', "ok", "ok")
       /\ ~is_indexed(join(UPLOAD_FOLDER, resp'.filename), ledger', fs')]_vars

\* The faults of a process_document call made while the store is unreachable:
\* the existence check, the batch insert and every individual insert raise.
StoreDown ==
  [check |-> [q1 |-> "error", q2 |-> "ok"], del |-> [q |-> "ok", d |-> "ok"],
   batch |-> "error", ok |-> {}]

\* This step of the scan called process_document and every store call of it
\* failed.
ScanStoreDown ==
  /\ scan.active /\ NewCall
  /\ [store |-> store', result |-> lastOp'.result, written |-> lastOp'.written]
       = process_document(lastOp'.text, lastOp'.filename, lastOp'.source_path, store,
                          FALSE, StoreDown)

\* C20: when every store call the scan makes for one file fails, the file is
\* not counted as newly indexed and is not marked in the ledger, and the scan
\* goes on with the next file.
C20_UnreachableStore ==
  [][ScanStoreDown =>
       /\ scan'.files_indexed = scan.files_indexed
       /\ ledger' = ledger /\ disk' = disk
       /\ scan'.active /\ scan'.todo = Tail(scan.todo)]_vars

\* The file a ledger key stands for: a key without a directory is the
\* filename of a document of the upload folder.
FileOf(k) == IF k[1] \in Dirs THEN k ELSE join(UPLOAD_FOLDER, basename(k))

\* C21: every ledger key is the path of a file under the document root, no
\* file is represented by more than one ledger entry, and the number of
\* entries (total_documents) is the number of distinct tracked files.
C21_OneEntryPerPath ==
  /\ \A k \in DOMAIN ledger : k[1] \in Dirs
  /\ \A k1, k2 \in DOMAIN ledger : FileOf(k1) = FileOf(k2) => k1 = k2
  /\ Cardinality(get_all_indexed(ledger)) = Cardinality({FileOf(k) : k \in DOMAIN ledger})

\* C22: whenever the application changes the ledger file, the file is a
\* complete mapping equal to the ledger before the step or to the ledger after
\* it, so that a restart can load it.
C22_CrashAtomic ==
  [][(disk' # disk /\ ~LedgerLost) =>
       /\ disk'.valid
       /\ (disk'.entries = ledger \/ disk'.entries = ledger')]_vars

\* The faults of a call whose batch insert fails and whose individual inserts
\* succeed for the chunk indexes in ok only.
BatchFailsThen(ok) ==
  [check |-> NoCheckFault, del |-> [q |-> "ok", d |-> "ok"], batch |-> "error", ok |-> ok]

\* C23: after a failed batch insert, whatever subset of the individual
\* inserts fails, process_document returns a non-skipped result and every
\* other chunk of the document is in the store afterwards, numbered and
\* fingerprinted as a chunk of this text.
C23_OneBadChunk ==
  \A n \in Names, t \in Texts \ {0}, force \in BOOLEAN :
    \A ok \in SUBSET (0..(NumChunks(t) - 1)) :
      LET r == process_document(t, n, join(UPLOAD_FOLDER, n), store, force, BatchFailsThen(ok))
      IN (force \/ ~is_document_in_chroma(n, store, "ok", "ok")) =>
           /\ ~r.result.skipped
           /\ r.written = {ChunkId(n, i) : i \in ok}
           /\ \A i \in ok : /\ Numbered(r.store, ChunkId(n, i), t)
                            /\ r.store[ChunkId(n, i)].content_hash = get_document_hash(t)

\* A call has dropped the first chunk of its document and stored a later one:
\* the store holds chunk 1 of a filename and no chunk 0.
C23_Witness ==
  \E n \in Names, t \in Texts :
    /\ NumChunks(t) > 1
    /\ ChunkId(n, 0) \notin DOMAIN store
    /\ Numbered(store, ChunkId(n, 1), t)
    /\ store[ChunkId(n, 1)].content_hash = get_document_hash(t)

\* C24: a chunk that process_document stored at its first insert attempt, by
\* the batch insert or by the first individual insert of the fallback, is
\* stored with its text as it was built; only a retry after a failed
\* individual insert stores a text cut to the smaller cap.
C24_RetryProtocol ==
  (lastOp.op = "process_document" /\ ~lastOp.result.skipped) =>
    LET docs == documents(lastOp.text, lastOp.filename, lastOp.source_path)
    IN \A i \in DOMAIN docs :
         ChunkId(lastOp.filename, i) \in lastOp.written =>
           store[ChunkId(lastOp.filename, i)].page_content = docs[i].page_content

\* This step of the scan handled the file p.
ScanStep(p) == scan.active /\ scan.todo # <<>> /\ Head(scan.todo) = p /\ scan'.todo = Tail(scan.todo)
\* The file p has a ledger entry older than its modification time.
Drifted(p) == p \in DOMAIN ledger /\ fs[p].exists /\ fs[p].mtime > ledger[p].mtime

\* C25: the scan marks a file indexed without extracting it only when the
\* file has no ledger entry; a file whose ledger entry is older than its
\* modification time is extracted and, when it has text, passed to
\* process_document.
C25_ShortcutOnlyWithoutEntry ==
  [][\A p \in Paths :
       (ScanStep(p) /\ p \in DOMAIN ledger) =>
         /\ (ledger' # ledger => p \in scan'.extracted)
         /\ (Drifted(p) /\ file_ext(basename(p)) \in SUPPORTED_EXTENSIONS) =>
              /\ p \in scan'.extracted
              /\ HasText(extract_text_from_file(p, fs)) =>
                   (NewCall /\ lastOp'.source_path = p)]_vars

\* The ledgers a reconciliation may meet: any set of path keys and bare
\* filename keys, each with an entry of an earlier indexing.
Keys == Paths \cup {join("", n) : n \in Names}
LedgerOf(K) == [k \in K |-> [mtime |-> 1, stats |-> [chunks_created |-> 1]]]
\* The filenames of the store st that are the base name of no key of led.
Unrepresented(led, st) == {n \in AllSources(st) : \A k \in DOMAIN led : basename(k) # n}
\* The postcondition of a reconciliation s of the ledger led with the store st.
Reconciled(s, led, st) ==
  /\ s.count = Cardinality(Unrepresented(led, st))
  /\ Cardinality(DOMAIN s.ledger) = Cardinality(DOMAIN led) + s.count
  /\ \A k \in DOMAIN led : k \in DOMAIN s.ledger /\ s.ledger[k] = led[k]
  /\ \A k \in DOMAIN s.ledger \ DOMAIN led :
       s.ledger[k] = [mtime |-> 0, stats |-> [synced |-> TRUE]]
  /\ \A n \in AllSources(st) : \E k \in DOMAIN s.ledger : basename(k) = n

\* A scan has just begun: its reconciliation is done and it has visited no
\* file yet.
ScanBegun == scan.active /\ scan.todo = InOrder(scan.start.files)

C27_PagedEnumeration ==
  /\ get_indexed_sources_from_chroma(store, -1) = AllSources(store)
  /\ \A size \in 1..MaxPage :
       /\ ListPages(store, size, 0, 0, -1, {}) = AllSources(store)
       /\ PageRequests(store, size, 0) = (Cardinality(DOMAIN store) \div size) + 1

\* The store holds chunks of two source files, more than the largest page
\* size and an exact multiple of a page size.
C27_Witness ==
  /\ Cardinality(AllSources(store)) = 2
  /\ Cardinality(DOMAIN store) > MaxPage
  /\ \E size \in 2..MaxPage : Cardinality(DOMAIN store) % size = 0
  /\ get_indexed_sources_from_chroma(store, -1) = AllSources(store)

\* C28: when the scan reaches a supported file that is not indexed, whose
\* filename the store's enumeration did not return and whose extracted text is
\* blank, it extracts the file, does not call process_document, leaves the
\* store, the ledger and its file unchanged, counts nothing and goes on.
C28_NoTextSkip ==
  [][\A p \in Paths :
       (/\ ScanStep(p)
        /\ file_ext(basename(p)) \in SUPPORTED_EXTENSIONS
        /\ ~is_indexed(p, ledger, fs)
        /\ basename(p) \notin scan.chroma_sources
        /\ extract_text_from_file(p, fs) = 0) =>
         /\ p \in scan'.extracted
         /\ ~NewCall /\ lastOp' = lastOp
         /\ store' = store /\ ledger' = ledger /\ disk' = disk
         /\ scan'.files_indexed = scan.files_indexed
         /\ scan'.active /\ up']_vars

\* A scan has extracted a file with blank text, left it without ledger entry
\* and gone on to index a later file.
C28_Witness ==
  /\ scan.active
  /\ \E p \in scan.extracted :
       /\ fs[p].exists /\ extract_text_from_file(p, fs) = 0
       /\ p \notin DOMAIN ledger
       /\ lastOp.op = "process_document" /\ lastOp.source_path # p
       /\ lastOp.source_path \in scan.extracted
       /\ scan.files_indexed = 1

\* C29: a scan that begins right after a scan has returned, with the files
\* and the store as that scan left them, inserts and deletes nothing in the
\* store, changes no ledger entry, and counts no file as indexed.
C29_ScanIdempotent ==
  (scan.active /\ scan.start.after_scan) =>
    /\ store = scan.start.store
    /\ ledger = scan.start.ledger
    /\ scan.files_indexed = 0

\* C30: once a scan or an upload has returned and until the next request is
\* served, for every path that is_indexed reports as indexed, the store holds
\* chunks whose source is the path's filename, and every such chunk carries
\* the fingerprint of the file's current text.
C30_LedgerStoreAgree ==
  (~scan.active /\ up /\ resp.op \in {"upload", "startup", "reindex"}) =>
    \A p \in Paths :
      (is_indexed(p, ledger, fs) /\ HasText(extract_text_from_file(p, fs))) =>
        /\ SourceIds(store, basename(p)) # {}
        /\ \A id \in SourceIds(store, basename(p)) :
             store[id].content_hash = get_document_hash(extract_text_from_file(p, fs))

==========================================================================
